---- MODULE Spec2Model ----
(***************************************************************************)
(* Model of logfix (src/logfix/src/main.rs): format detection, record      *)
(* extraction, severity classification with the rayon fold/reduce          *)
(* aggregation, token-budget truncation and the line diff.                 *)
(*                                                                         *)
(* A text (Rust &str) is a sequence of one-character strings.              *)
(***************************************************************************)
EXTENDS Naturals, Integers, Sequences, FiniteSets, TLC

VARIABLES pc, contents, yamlVoidIsSeq, format, lines, units, outOfOrder, output,
          log_data, max_tokens, optimized,
          original, modified, changes

vars == <<pc, contents, yamlVoidIsSeq, format, lines, units, outOfOrder, output,
          log_data, max_tokens, optimized, original, modified, changes>>

logVars == <<contents, yamlVoidIsSeq, format, lines, units, outOfOrder, output>>
truncVars == <<log_data, max_tokens, optimized>>
diffVars == <<original, modified, changes>>

(***************************************************************************)
(* Bounds of the model.                                                    *)
(***************************************************************************)
\* records (lines) per input text of the aggregation runs
MaxRecords == 3
\* fragments per record of the classification runs
MaxFrags == 3
\* characters per text of the format detection runs
MaxDetectLen == 4
\* characters per text and largest budget of the truncation runs
MaxTextLen == 4
MaxBudget == 3
\* lines per text of the diff runs
MaxDiffLines == 3

(***************************************************************************)
(* Text helpers (str methods used by the program).                         *)
(***************************************************************************)
SetMin(S) == CHOOSE m \in S : \A n \in S : m <= n
SetMax(S) == CHOOSE m \in S : \A n \in S : m >= n

\* char::is_whitespace restricted to the ASCII white space
IsWhitespace(c) == c \in {" ", "\n", "\t", "\r"}

\* str::trim
Trim(s) ==
    LET keep == {i \in 1..Len(s) : ~IsWhitespace(s[i])}
    IN  IF keep = {} THEN <<>> ELSE SubSeq(s, SetMin(keep), SetMax(keep))

\* str::starts_with
StartsWith(s, p) == Len(s) >= Len(p) /\ SubSeq(s, 1, Len(p)) = p

\* str::contains
Contains(s, p) == \E i \in 1..(Len(s) + 1 - Len(p)) : SubSeq(s, i, i + Len(p) - 1) = p

RECURSIVE Flatten(_)
Flatten(ss) == IF ss = <<>> THEN <<>> ELSE Head(ss) \o Flatten(Tail(ss))

\* [String]::join("\n")
RECURSIVE JoinNl(_)
JoinNl(ss) ==
    IF ss = <<>> THEN <<>>
    ELSE IF Len(ss) = 1 THEN ss[1]
    ELSE ss[1] \o <<"\n">> \o JoinNl(Tail(ss))

\* str::lines: split at "\n", a "\r" before the "\n" belongs to the line
\* ending, and a final empty piece is no line
RECURSIVE Lines(_)
Lines(s) ==
    IF s = <<>> THEN <<>>
    ELSE LET nl == {i \in 1..Len(s) : s[i] = "\n"}
         IN  IF nl = {} THEN <<s>>
             ELSE LET i == SetMin(nl)
                      raw == SubSeq(s, 1, i - 1)
                      line == IF raw # <<>> /\ raw[Len(raw)] = "\r"
                              THEN SubSeq(raw, 1, Len(raw) - 1) ELSE raw
                  IN  <<line>> \o Lines(SubSeq(s, i + 1, Len(s)))

(***************************************************************************)
(* detect_log_format                                                       *)
(***************************************************************************)
DetectLogFormatYamlLate(c) ==
    IF StartsWith(Trim(c), <<"{">>) THEN "json"
    ELSE IF Contains(c, <<"=">>) THEN "toml"
    ELSE IF StartsWith(Trim(c), <<"-", "-", "-">>) \/ Contains(c, <<":", "\n">>) THEN "yaml"
    ELSE "plain"

DetectLogFormatBracket(c) ==
    IF StartsWith(Trim(c), <<"{">>) \/ StartsWith(Trim(c), <<"[">>) THEN "json"
    ELSE IF StartsWith(Trim(c), <<"-", "-", "-">>) \/ Contains(c, <<":", "\n">>) THEN "yaml"
    ELSE IF Contains(c, <<"=">>) THEN "toml"
    ELSE "plain"

DetectLogFormat(c) ==
    IF StartsWith(Trim(c), <<"{">>) THEN "json"
    ELSE IF StartsWith(Trim(c), <<"-", "-", "-">>) \/ Contains(c, <<":", "\n">>) THEN "yaml"
    ELSE IF Contains(c, <<"=">>) THEN "toml"
    ELSE "plain"

(***************************************************************************)
(* serde_json::from_str::<Vec<String>>: white space, '[', strings          *)
(* separated by ',', ']', white space, end of input.  A string is '"',     *)
(* characters other than '"', '\' and control characters, '"'; escapes     *)
(* are outside the inputs of the model and are rejected.                   *)
(***************************************************************************)
Err == [ok |-> FALSE, val |-> <<>>]
Ok(v) == [ok |-> TRUE, val |-> v]

IsJsonWs(c) == c \in {" ", "\n", "\t", "\r"}

RECURSIVE SkipWs(_, _)
SkipWs(s, i) == IF i <= Len(s) /\ IsJsonWs(s[i]) THEN SkipWs(s, i + 1) ELSE i

\* index of the closing quote of the string whose first character is at i, or 0
RECURSIVE JsonStringEnd(_, _)
JsonStringEnd(s, i) ==
    IF i > Len(s) THEN 0
    ELSE IF s[i] = "\"" THEN i
    ELSE IF s[i] \in {"\\", "\n", "\t", "\r"} THEN 0
    ELSE JsonStringEnd(s, i + 1)

\* the elements after position i, where a string is expected
RECURSIVE JsonElements(_, _, _)
JsonElements(s, i, acc) ==
    LET a == SkipWs(s, i)
    IN  IF a > Len(s) \/ s[a] # "\"" THEN Err
        ELSE LET e == JsonStringEnd(s, a + 1)
             IN  IF e = 0 THEN Err
                 ELSE LET item == SubSeq(s, a + 1, e - 1)
                          b == SkipWs(s, e + 1)
                      IN  IF b > Len(s) THEN Err
                          ELSE IF s[b] = "," THEN JsonElements(s, b + 1, Append(acc, item))
                          ELSE IF s[b] = "]"
                               THEN IF SkipWs(s, b + 1) > Len(s)
                                    THEN Ok(Append(acc, item)) ELSE Err
                          ELSE Err

ParseJsonSeq(s) ==
    LET a == SkipWs(s, 1)
    IN  IF a > Len(s) \/ s[a] # "[" THEN Err
        ELSE LET b == SkipWs(s, a + 1)
             IN  IF b <= Len(s) /\ s[b] = "]"
                 THEN IF SkipWs(s, b + 1) > Len(s) THEN Ok(<<>>) ELSE Err
                 ELSE JsonElements(s, a + 1, <<>>)

(***************************************************************************)
(* serde_yaml::from_str::<Vec<String>>, for documents made of whole lines: *)
(* an optional "---" line, then block sequence entries "- scalar" with a   *)
(* plain one-line scalar.  A document whose first node is anything else    *)
(* (a scalar, a mapping "key:", a flow collection) is no sequence and is   *)
(* an error, as is a second document or a line that is no entry after an   *)
(* entry.  The empty document ("---" alone) is an empty sequence or an     *)
(* error, by the version of the library: yamlVoidIsSeq.                    *)
(***************************************************************************)
\* the pieces between the "\n" of s, the last one included when empty
RECURSIVE SplitNl(_)
SplitNl(s) ==
    LET nl == {i \in 1..Len(s) : s[i] = "\n"}
    IN  IF nl = {} THEN <<s>>
        ELSE <<SubSeq(s, 1, SetMin(nl) - 1)>> \o SplitNl(SubSeq(s, SetMin(nl) + 1, Len(s)))

IsBlank(l) == \A i \in 1..Len(l) : l[i] = " "

YamlIndicators == {":", "#", "{", "}", "[", "]", ",", "&", "!", "|", ">", "\"", "%", "@", "-", "?"}

\* "- " and a plain scalar without indicator characters
IsYamlEntry(l) ==
    /\ Len(l) >= 3
    /\ l[1] = "-" /\ l[2] = " "
    /\ ~IsWhitespace(l[3]) /\ ~IsWhitespace(l[Len(l)])
    /\ \A i \in 3..Len(l) : l[i] \notin YamlIndicators /\ l[i] \notin {"\n", "\t", "\r"}

ParseYamlSeq(s, voidIsSeq) ==
    LET all == SplitNl(s)
        body == IF all[1] = <<"-", "-", "-">> THEN Tail(all) ELSE all
        rows == SelectSeq(body, LAMBDA l : ~IsBlank(l))
    IN  IF rows = <<>> THEN (IF voidIsSeq THEN Ok(<<>>) ELSE Err)
        ELSE IF \A i \in 1..Len(rows) : IsYamlEntry(rows[i])
             THEN Ok([i \in 1..Len(rows) |-> SubSeq(rows[i], 3, Len(rows[i]))])
             ELSE Err

(***************************************************************************)
(* parse_log                                                               *)
(***************************************************************************)
UnwrapOrWhole(r, c) == IF r.ok THEN r.val ELSE <<c>>

ParseLogFallbackLines(c, voidIsSeq) ==
    LET f == DetectLogFormat(c)
    IN  IF f = "json" THEN (IF ParseJsonSeq(c).ok THEN ParseJsonSeq(c).val ELSE Lines(c))
        ELSE IF f = "yaml"
             THEN (IF ParseYamlSeq(c, voidIsSeq).ok THEN ParseYamlSeq(c, voidIsSeq).val ELSE Lines(c))
        ELSE Lines(c)

ParseLog(c, voidIsSeq) ==
    LET f == DetectLogFormat(c)
    IN  IF f = "json" THEN UnwrapOrWhole(ParseJsonSeq(c), c)
        ELSE IF f = "yaml" THEN UnwrapOrWhole(ParseYamlSeq(c, voidIsSeq), c)
        ELSE Lines(c)

(***************************************************************************)
(* The five severity patterns (case-insensitive keyword, one of ':' and    *)
(* ' ', then a group of any characters) and Regex::captures:               *)
(* the leftmost place where the keyword, in any case, is followed by ':'   *)
(* or ' '; group 1 is what follows up to the end of the line ('.' does not *)
(* match "\n").                                                            *)
(***************************************************************************)
UpperCase == <<"A", "B", "C", "D", "E", "F", "G", "H", "I", "J", "K", "L", "M",
               "N", "O", "P", "Q", "R", "S", "T", "U", "V", "W", "X", "Y", "Z">>
LowerCase == <<"a", "b", "c", "d", "e", "f", "g", "h", "i", "j", "k", "l", "m",
               "n", "o", "p", "q", "r", "s", "t", "u", "v", "w", "x", "y", "z">>

\* simple case folding of the ASCII letters
Fold(c) ==
    IF \E i \in 1..26 : UpperCase[i] = c
    THEN LowerCase[CHOOSE i \in 1..26 : UpperCase[i] = c]
    ELSE c

error_regex == <<"e", "r", "r", "o", "r">>
warning_regex == <<"w", "a", "r", "n", "i", "n", "g">>
info_regex == <<"i", "n", "f", "o">>
debug_regex == <<"d", "e", "b", "u", "g">>
critical_regex == <<"c", "r", "i", "t", "i", "c", "a", "l">>

\* the pattern matches at position i of line
MatchesAt(kw, line, i) ==
    /\ i + Len(kw) <= Len(line)
    /\ \A j \in 1..Len(kw) : Fold(line[i + j - 1]) = kw[j]
    /\ line[i + Len(kw)] \in {":", " "}

IsMatch(kw, line) == \E i \in 1..Len(line) : MatchesAt(kw, line, i)

None == [some |-> FALSE, val |-> <<>>]
Some(v) == [some |-> TRUE, val |-> v]

\* Regex::captures(line) and cap[1]
Captures(kw, line) ==
    IF ~IsMatch(kw, line) THEN None
    ELSE LET i == SetMin({k \in 1..Len(line) : MatchesAt(kw, line, k)})
             from == i + Len(kw) + 1
             stop == {k \in from..Len(line) : line[k] = "\n"}
             to == IF stop = {} THEN Len(line) ELSE SetMin(stop) - 1
         IN  Some(SubSeq(line, from, to))

(***************************************************************************)
(* process_logs_by_level: the map closure, the fold and the reduce.        *)
(* A classification is the tuple (error, warning, info, debug, critical)   *)
(* of options, an accumulator the tuple of the five vectors.               *)
(***************************************************************************)
NoClass == <<None, None, None, None, None>>

ClassifyLineLastWins(line) ==
    IF Captures(critical_regex, line).some
    THEN [NoClass EXCEPT ![5] = Captures(critical_regex, line)]
    ELSE IF Captures(debug_regex, line).some
    THEN [NoClass EXCEPT ![4] = Captures(debug_regex, line)]
    ELSE IF Captures(info_regex, line).some
    THEN [NoClass EXCEPT ![3] = Captures(info_regex, line)]
    ELSE IF Captures(warning_regex, line).some
    THEN [NoClass EXCEPT ![2] = Captures(warning_regex, line)]
    ELSE IF Captures(error_regex, line).some
    THEN [NoClass EXCEPT ![1] = Captures(error_regex, line)]
    ELSE NoClass

ClassifyLine(line) ==
    IF Captures(error_regex, line).some
    THEN [NoClass EXCEPT ![1] = Captures(error_regex, line)]
    ELSE IF Captures(warning_regex, line).some
    THEN [NoClass EXCEPT ![2] = Captures(warning_regex, line)]
    ELSE IF Captures(info_regex, line).some
    THEN [NoClass EXCEPT ![3] = Captures(info_regex, line)]
    ELSE IF Captures(debug_regex, line).some
    THEN [NoClass EXCEPT ![4] = Captures(debug_regex, line)]
    ELSE IF Captures(critical_regex, line).some
    THEN [NoClass EXCEPT ![5] = Captures(critical_regex, line)]
    ELSE NoClass

\* the identity of the fold and of the reduce
Identity == <<(<<>>), (<<>>), (<<>>), (<<>>), (<<>>)>>

\* the fold operation: push each Some
FoldOp(acc, item) ==
    [b \in 1..5 |-> IF item[b].some THEN Append(acc[b], item[b].val) ELSE acc[b]]

ReduceOpSwapped(acc, item) == [b \in 1..5 |-> item[b] \o acc[b]]

\* the reduce operation: extend each vector of acc by that of item
ReduceOp(acc, item) == [b \in 1..5 |-> acc[b] \o item[b]]

LogOutput(t) ==
    [file |-> "logfile", errors |-> t[1], warnings |-> t[2], infos |-> t[3],
     debugs |-> t[4], criticals |-> t[5]]

NoOutput == LogOutput(Identity)

(***************************************************************************)
(* The steps of process_logs_by_level.  rayon's bridge splits the indexed  *)
(* range of lines into contiguous work units before a unit is folded; a    *)
(* unit is folded from its first line to its last in its own accumulator,  *)
(* handed to its reduce folder (which starts from the identity) when the   *)
(* unit is exhausted, and the results of neighbouring finished units are   *)
(* reduced, left operand first.  Units run in any order.                   *)
(***************************************************************************)
Unit(lo, hi) == [lo |-> lo, hi |-> hi, pos |-> lo, acc |-> Identity, done |-> FALSE]

\* lines 208-210: parse_log and the start of the parallel iterator
ParseStep ==
    /\ pc = "start"
    /\ format' = DetectLogFormat(contents)
    /\ lines' = ParseLog(contents, yamlVoidIsSeq)
    /\ units' = <<Unit(1, Len(lines') + 1)>>
    /\ pc' = "par"
    /\ UNCHANGED <<contents, yamlVoidIsSeq, outOfOrder, output, truncVars, diffVars>>

\* a unit no line of which is folded yet is split in two
Split(i, mid) ==
    /\ pc = "par"
    /\ i \in 1..Len(units)
    /\ units[i].pos = units[i].lo /\ ~units[i].done
    /\ units[i].lo < mid /\ mid < units[i].hi
    /\ units' = SubSeq(units, 1, i - 1)
                \o <<Unit(units[i].lo, mid), Unit(mid, units[i].hi)>>
                \o SubSeq(units, i + 1, Len(units))
    /\ UNCHANGED <<pc, contents, yamlVoidIsSeq, format, lines, outOfOrder, output,
                   truncVars, diffVars>>

\* a line of the input is not yet folded
Unfolded(k) == \E j \in 1..Len(units) : units[j].pos <= k /\ k < units[j].hi

\* lines 211-242: a unit classifies its next line and folds it
FoldStep(i) ==
    /\ pc = "par"
    /\ i \in 1..Len(units)
    /\ units[i].pos < units[i].hi
    /\ units' = [units EXCEPT ![i].acc = FoldOp(@, ClassifyLine(lines[units[i].pos])),
                              ![i].pos = @ + 1]
    /\ outOfOrder' = (outOfOrder \/ \E k \in 1..(units[i].pos - 1) : Unfolded(k))
    /\ UNCHANGED <<pc, contents, yamlVoidIsSeq, format, lines, output, truncVars, diffVars>>

\* an exhausted unit hands its accumulator to its reduce folder
Complete(i) ==
    /\ pc = "par"
    /\ i \in 1..Len(units)
    /\ units[i].pos = units[i].hi /\ ~units[i].done
    /\ units' = [units EXCEPT ![i].acc = ReduceOp(Identity, @), ![i].done = TRUE]
    /\ UNCHANGED <<pc, contents, yamlVoidIsSeq, format, lines, outOfOrder, output,
                   truncVars, diffVars>>

\* lines 243-253: the results of two neighbouring finished units are reduced
Reduce(i) ==
    /\ pc = "par"
    /\ i \in 1..(Len(units) - 1)
    /\ units[i].done /\ units[i + 1].done
    /\ units' = SubSeq(units, 1, i - 1)
                \o <<[lo |-> units[i].lo, hi |-> units[i + 1].hi, pos |-> units[i + 1].hi,
                      acc |-> ReduceOp(units[i].acc, units[i + 1].acc), done |-> TRUE]>>
                \o SubSeq(units, i + 2, Len(units))
    /\ UNCHANGED <<pc, contents, yamlVoidIsSeq, format, lines, outOfOrder, output,
                   truncVars, diffVars>>

\* line 255: the one remaining result is the output
Finish ==
    /\ pc = "par"
    /\ Len(units) = 1 /\ units[1].done
    /\ output' = LogOutput(units[1].acc)
    /\ pc' = "done"
    /\ UNCHANGED <<contents, yamlVoidIsSeq, format, lines, units, outOfOrder,
                   truncVars, diffVars>>

NextLog ==
    \/ ParseStep
    \/ \E i \in 1..Len(units), mid \in 1..Len(lines) : Split(i, mid)
    \/ \E i \in 1..Len(units) : FoldStep(i)
    \/ \E i \in 1..Len(units) : Complete(i)
    \/ \E i \in 1..Len(units) : Reduce(i)
    \/ Finish

\* the variables of the other operations, at rest
TruncIdle == log_data = <<>> /\ max_tokens = 0 /\ optimized = Err
DiffIdle == original = <<>> /\ modified = <<>> /\ changes = <<>>

InitLog(texts) ==
    /\ pc = "start"
    /\ contents \in texts
    /\ yamlVoidIsSeq \in BOOLEAN
    /\ format = "none"
    /\ lines = <<>>
    /\ units = <<>>
    /\ outOfOrder = FALSE
    /\ output = NoOutput
    /\ TruncIdle /\ DiffIdle

\* all sequences of at most n elements of S
SeqsUpTo(S, n) == UNION {[1..k -> S] : k \in 0..n}

(***************************************************************************)
(* Aggregation runs: texts of at most MaxRecords lines of a pool.          *)
(***************************************************************************)
LineErrA == <<"E", "R", "R", "O", "R", ":", "a">>
LineErrB == <<"e", "r", "r", "o", "r", " ", "b">>
LineInfoA == <<"I", "N", "F", "O", ":", "a">>
LineNoise == <<"n", "o", "i", "s", "e">>

AggPool == {LineErrA, LineErrB, LineInfoA, LineNoise}

AggTexts == {JoinNl(ls) : ls \in SeqsUpTo(AggPool, MaxRecords)}

Init == InitLog(AggTexts)

Next == NextLog

Spec == Init /\ [][Next]_vars

\* the classification of the records in order, in one partition
RECURSIVE FoldAll(_, _)
FoldAll(acc, ls) ==
    IF ls = <<>> THEN acc ELSE FoldAll(FoldOp(acc, ClassifyLine(Head(ls))), Tail(ls))

Sequential(ls) == LogOutput(ReduceOp(Identity, FoldAll(Identity, ls)))

\* C1: whatever the partition of the records into work units and the order
\* in which the units run and are reduced, each of the five output sequences
\* is the one the sequential classification of the records gives.
C1_OrderPreserved == pc = "done" => output = Sequential(lines)

\* two errors with different messages, folded out of record order by
\* different units
C1_Witness ==
    /\ pc = "done"
    /\ outOfOrder
    /\ Len(output.errors) >= 2
    /\ output.errors[1] # output.errors[2]

(***************************************************************************)
(* Classification runs: records made of at most MaxFrags fragments, the    *)
(* keywords in several cases, with and without a separator.                *)
(***************************************************************************)
Frags ==
    {<<"e", "r", "r", "o", "r", ":">>,
     <<"e", "r", "r", "o", "r">>,
     <<"W", "a", "r", "n", "i", "n", "g", " ">>,
     <<"i", "n", "f", "o", ":">>,
     <<"d", "e", "b", "u", "g", " ">>,
     <<"C", "R", "I", "T", "I", "C", "A", "L", ":">>,
     <<"x">>,
     <<"\n">>}

ClassifyTexts == {Flatten(fs) : fs \in SeqsUpTo(Frags, MaxFrags)}

InitClassify == InitLog(ClassifyTexts)

SpecClassify == InitClassify /\ [][Next]_vars

Keywords == <<error_regex, warning_regex, info_regex, debug_regex, critical_regex>>

\* the units that have folded exactly their first record
FoldedOne == {i \in 1..Len(units) : units[i].pos = units[i].lo + 1 /\ ~units[i].done}

\* m is what follows the first occurrence, in any case, of keyword kw and a
\* separator in record r, up to the end of the line
IsMessageOf(m, kw, r) ==
    \E i \in 1..Len(r) :
        /\ MatchesAt(kw, r, i)
        /\ \A k \in 1..(i - 1) : ~MatchesAt(kw, r, k)
        /\ LET rest == SubSeq(r, i + Len(kw) + 1, Len(r))
           IN  /\ Len(m) <= Len(rest)
               /\ m = SubSeq(rest, 1, Len(m))
               /\ \A k \in 1..Len(m) : m[k] # "\n"
               /\ (Len(m) < Len(rest) => rest[Len(m) + 1] = "\n")

\* C2: the bucket of a record is the first, in the order Error, Warning,
\* Info, Debug, Critical, whose keyword followed by ':' or ' ' occurs
\* anywhere in the record, in any case; the record goes to that bucket only,
\* and its message is the text after that keyword and its separator.
C2_FirstMatchWins ==
    \A i \in FoldedOne :
        LET r == lines[units[i].lo]
            acc == units[i].acc
            hits == {b \in 1..5 : IsMatch(Keywords[b], r)}
        IN  IF hits = {} THEN acc = Identity
            ELSE LET b == SetMin(hits)
                 IN  /\ \A o \in (1..5) \ {b} : acc[o] = <<>>
                     /\ Len(acc[b]) = 1
                     /\ IsMessageOf(acc[b][1], Keywords[b], r)

\* a record in which a Warning keyword comes before an Error keyword was
\* classified: it is an error, with the text after the Error keyword
C2_Witness ==
    \E i \in FoldedOne :
        LET r == lines[units[i].lo]
        IN  /\ IsMatch(warning_regex, r) /\ IsMatch(error_regex, r)
            /\ SetMin({k \in 1..Len(r) : MatchesAt(warning_regex, r, k)})
                 < SetMin({k \in 1..Len(r) : MatchesAt(error_regex, r, k)})
            /\ units[i].acc[1] = <<(<<"x">>)>>

(***************************************************************************)
(* The end-to-end scenario: the four lines of the scenario, any of them    *)
(* left out, in file order.                                                *)
(***************************************************************************)
ScenarioLines ==
    <<(<<"E", "R", "R", "O", "R", ":", " ", "d", "i", "s", "k", " ", "f", "u", "l", "l">>),
      (<<"W", "A", "R", "N", "I", "N", "G", ":", " ", "l", "o", "w", " ", "m", "e", "m", "o", "r", "y">>),
      (<<"r", "a", "n", "d", "o", "m", " ", "t", "e", "x", "t">>),
      (<<"C", "R", "I", "T", "I", "C", "A", "L", ":", " ", "m", "e", "l", "t", "d", "o", "w", "n">>)>>

\* the elements of sequence ss at the indices of S, in order
RECURSIVE Pick(_, _)
Pick(ss, S) ==
    IF S = {} THEN <<>>
    ELSE <<ss[SetMin(S)]>> \o Pick(ss, S \ {SetMin(S)})

ScenarioTexts == {JoinNl(Pick(ScenarioLines, S)) : S \in SUBSET (1..4)}

InitScenario == InitLog(ScenarioTexts)

SpecScenario == InitScenario /\ [][Next]_vars

Total(o) ==
    Len(o.errors) + Len(o.warnings) + Len(o.infos) + Len(o.debugs) + Len(o.criticals)

Matching(ls) == {k \in 1..Len(ls) : \E b \in 1..5 : IsMatch(Keywords[b], ls[k])}

\* C3: a record that matches no pattern adds nothing, every other record
\* adds one message, and the four lines of the scenario give
\* errors = ["disk full"], warnings = ["low memory"], criticals = ["meltdown"],
\* infos = [], debugs = [].
C3_Scenario ==
    pc = "done" =>
        /\ Total(output) = Cardinality(Matching(lines))
        /\ contents = JoinNl(ScenarioLines) =>
             /\ output.errors = <<(<<"d", "i", "s", "k", " ", "f", "u", "l", "l">>)>>
             /\ output.warnings = <<(<<"l", "o", "w", " ", "m", "e", "m", "o", "r", "y">>)>>
             /\ output.criticals = <<(<<"m", "e", "l", "t", "d", "o", "w", "n">>)>>
             /\ output.infos = <<>>
             /\ output.debugs = <<>>

\* the counting part of C3 alone, which the code satisfies
C3_CountOnly == pc = "done" => Total(output) = Cardinality(Matching(lines))

\* what the code gives for the scenario: each message keeps the space that
\* follows the colon
C3_CodeGives ==
    pc = "done" /\ contents = JoinNl(ScenarioLines) =>
        /\ output.errors = <<(<<" ", "d", "i", "s", "k", " ", "f", "u", "l", "l">>)>>
        /\ output.warnings = <<(<<" ", "l", "o", "w", " ", "m", "e", "m", "o", "r", "y">>)>>
        /\ output.criticals = <<(<<" ", "m", "e", "l", "t", "d", "o", "w", "n">>)>>
        /\ output.infos = <<>>
        /\ output.debugs = <<>>

(***************************************************************************)
(* Format detection runs: every text of at most MaxDetectLen characters of *)
(* the characters the rules look at.                                       *)
(***************************************************************************)
DetectChars == {"{", "-", ":", "\n", "=", " ", "x"}

DetectTexts == SeqsUpTo(DetectChars, MaxDetectLen)

\* detect_log_format applied to the text
Detect ==
    /\ pc = "detect"
    /\ format' = DetectLogFormat(contents)
    /\ pc' = "detected"
    /\ UNCHANGED <<contents, yamlVoidIsSeq, lines, units, outOfOrder, output,
                   truncVars, diffVars>>

InitDetect ==
    /\ pc = "detect"
    /\ contents \in DetectTexts
    /\ yamlVoidIsSeq = FALSE
    /\ format = "none"
    /\ lines = <<>>
    /\ units = <<>>
    /\ outOfOrder = FALSE
    /\ output = NoOutput
    /\ TruncIdle /\ DiffIdle

NextDetect == Detect

SpecDetect == InitDetect /\ [][NextDetect]_vars

\* the first character that is no white space is at i, and p starts there
TrimmedStartsAt(c, p, i) ==
    /\ i + Len(p) - 1 <= Len(c)
    /\ \A k \in 1..(i - 1) : IsWhitespace(c[k])
    /\ \A k \in 1..Len(p) : c[i + k - 1] = p[k]

LooksJson(c) == \E i \in 1..Len(c) : TrimmedStartsAt(c, <<"{">>, i)
LooksYaml(c) ==
    \/ \E i \in 1..Len(c) : TrimmedStartsAt(c, <<"-", "-", "-">>, i)
    \/ \E i \in 1..(Len(c) - 1) : c[i] = ":" /\ c[i + 1] = "\n"
HasEquals(c) == \E i \in 1..Len(c) : c[i] = "="

\* C4: detect_log_format gives one of the four formats for every text, the
\* empty one included, by the rules Json, Yaml, Toml, Plain in this order,
\* the first that applies: json when the trimmed text starts with '{', else
\* yaml when it starts with '---' or the text has ':' before a newline, else
\* toml when the text has '=', else plain.
C4_DetectOrder ==
    pc = "detected" =>
        /\ format \in {"json", "yaml", "toml", "plain"}
        /\ LooksJson(contents) => format = "json"
        /\ ~LooksJson(contents) /\ LooksYaml(contents) => format = "yaml"
        /\ ~LooksJson(contents) /\ ~LooksYaml(contents) /\ HasEquals(contents)
             => format = "toml"
        /\ ~LooksJson(contents) /\ ~LooksYaml(contents) /\ ~HasEquals(contents)
             => format = "plain"

\* a text with ':' before a newline and with '=' was detected: yaml
C4_Witness ==
    /\ pc = "detected"
    /\ format = "yaml"
    /\ HasEquals(contents)
    /\ \E i \in 1..(Len(contents) - 1) : contents[i] = ":" /\ contents[i + 1] = "\n"

(***************************************************************************)
(* Extraction runs: texts of at most MaxRecords lines of a pool with the   *)
(* YAML document start, a sequence entry, a mapping key and a brace.       *)
(***************************************************************************)
ParsePool ==
    {<<"-", "-", "-">>,
     <<"-", " ", "e", "r", "r", "o", "r", " ", "a">>,
     <<"k", "e", "y", ":">>,
     <<"{">>}

ParseTexts == {JoinNl(ls) : ls \in SeqsUpTo(ParsePool, MaxRecords)}

InitParse == InitLog(ParseTexts)

SpecParse == InitParse /\ [][Next]_vars

\* the parse as a sequence of strings of a text detected as json or yaml
\* fails
SeqParseFails ==
    \/ format = "json" /\ ~ParseJsonSeq(contents).ok
    \/ format = "yaml" /\ ~ParseYamlSeq(contents, yamlVoidIsSeq).ok

\* C5: when the text is detected as json or yaml and its parse as a
\* sequence of strings fails, parse_log gives exactly one record, the text.
C5_FallbackWhole == pc # "start" /\ SeqParseFails => lines = <<contents>>

\* a yaml text of several lines whose parse failed is one record
C5_Witness ==
    /\ pc = "done"
    /\ format = "yaml"
    /\ SeqParseFails
    /\ Len(Lines(contents)) >= 2
    /\ lines = <<contents>>

(***************************************************************************)
(* Json runs: texts of at most MaxRecords lines of a pool with a brace,    *)
(* the two halves of a JSON array of strings and a plain error line.       *)
(***************************************************************************)
JsonPool ==
    {<<"{">>,
     <<"[", "\"", "e", "r", "r", "o", "r", " ", "a", "\"", ",">>,
     <<"\"", "e", "r", "r", "o", "r", " ", "b", "\"", "]">>,
     <<"e", "r", "r", "o", "r", " ", "c">>}

JsonTexts == {JoinNl(ls) : ls \in SeqsUpTo(JsonPool, MaxRecords)}

InitJson == InitLog(JsonTexts)

SpecJson == InitJson /\ [][Next]_vars

\* C10: a text detected as json never parses as a sequence of strings, so
\* it is one record, the whole text, and process_logs_by_level puts at most
\* one message in the five buckets, however many lines the text has.
C10_JsonOneRecord ==
    format = "json" =>
        /\ ~ParseJsonSeq(contents).ok
        /\ lines = <<contents>>
        /\ pc = "done" => Total(output) <= 1

\* a json text of three lines, two of them with an error keyword, gave one
\* message
C10_Witness ==
    /\ pc = "done"
    /\ format = "json"
    /\ Cardinality(Matching(Lines(contents))) >= 2
    /\ Total(output) = 1

(***************************************************************************)
(* optimize_log_data.  The tokenizer is byte-level BPE in the manner of    *)
(* tiktoken's cl100k_base: the text is cut into pieces by the pattern of   *)
(* the encoding, the UTF-8 bytes of each piece are merged pairwise by      *)
(* rank, and a token is the rank of a byte string.  The vocabulary below   *)
(* is a small one of the same shape: the single bytes, then the merges in  *)
(* rank order.  As in cl100k_base, some characters are spread over several *)
(* tokens (here the three bytes of U+2603 over two).  A character is named *)
(* by itself when it is ASCII and by its code point otherwise.  Texts with *)
(* the markers of special tokens are outside the inputs of the model.      *)
(***************************************************************************)
Snowman == "U+2603"

\* str::as_bytes of one character
Utf8(c) ==
    CASE c = "a" -> <<97>>
      [] c = "b" -> <<98>>
      [] c = " " -> <<32>>
      [] c = "\n" -> <<10>>
      [] c = Snowman -> <<226, 152, 131>>

TokenizerChars == {"a", "b", " ", "\n", Snowman}

RECURSIVE Bytes(_)
Bytes(text) == IF text = <<>> THEN <<>> ELSE Utf8(Head(text)) \o Bytes(Tail(text))

\* the byte strings of more than one byte of the vocabulary, by rank
Merges ==
    <<(<<32, 32>>), (<<97, 98>>), (<<32, 97>>), (<<226, 152>>), (<<32, 97, 98>>), (<<98, 97>>),
      (<<32, 10>>), (<<10, 10>>)>>

InVocab(bs) == Len(bs) = 1 \/ \E k \in 1..Len(Merges) : Merges[k] = bs

\* the token (rank) of a byte string of the vocabulary
RankOf(bs) ==
    IF Len(bs) = 1 THEN bs[1]
    ELSE 255 + (CHOOSE k \in 1..Len(Merges) : Merges[k] = bs)

\* the byte string of a token
TokenBytes(t) == IF t <= 255 THEN <<t>> ELSE Merges[t - 255]

\* byte_pair_merge: while two neighbouring parts join to a byte string of
\* the vocabulary, join the pair of least rank, the leftmost of them first
RECURSIVE BytePairMerge(_)
BytePairMerge(parts) ==
    LET cand == {i \in 1..(Len(parts) - 1) : InVocab(parts[i] \o parts[i + 1])}
    IN  IF cand = {} THEN parts
        ELSE LET best == SetMin({RankOf(parts[i] \o parts[i + 1]) : i \in cand})
                 i == SetMin({k \in cand : RankOf(parts[k] \o parts[k + 1]) = best})
             IN  BytePairMerge(SubSeq(parts, 1, i - 1)
                               \o <<parts[i] \o parts[i + 1]>>
                               \o SubSeq(parts, i + 2, Len(parts)))

\* the tokens of one piece: the piece itself when it is in the vocabulary
EncodePiece(bs) ==
    IF InVocab(bs) THEN <<RankOf(bs)>>
    ELSE LET parts == BytePairMerge([i \in 1..Len(bs) |-> <<bs[i]>>])
         IN  [i \in 1..Len(parts) |-> RankOf(parts[i])]

IsLetter(c) == \E i \in 1..26 : LowerCase[i] = c \/ UpperCase[i] = c
IsNumber(c) == c \in {"0", "1", "2", "3", "4", "5", "6", "7", "8", "9"}
IsNewline(c) == c \in {"\r", "\n"}
\* [^\s\p{L}\p{N}]
IsSymbol(c) == ~IsWhitespace(c) /\ ~IsLetter(c) /\ ~IsNumber(c)

\* the last index of the run, from i, of the indices in S (i - 1 when i is
\* not in S)
RunEnd(n, i, S) == SetMax({j \in (i - 1)..n : \A k \in i..j : k \in S})

\* the last index of the piece of text c that starts at i, by the
\* alternatives of the cl100k_base pattern in their order (the contractions
\* and the digits alternatives need characters outside the model's texts):
\*   [^\r\n\p{L}\p{N}]?\p{L}+  |  ?[^\s\p{L}\p{N}]+[\r\n]*  |  \s*[\r\n]+
\*   |  \s+(?!\S)  |  \s+
PieceEnd(c, i) ==
    LET n == Len(c)
        letters == {k \in 1..n : IsLetter(c[k])}
        symbols == {k \in 1..n : IsSymbol(c[k])}
        spaces == {k \in 1..n : IsWhitespace(c[k])}
        newlines == {k \in 1..n : IsNewline(c[k])}
        wsEnd == RunEnd(n, i, spaces)
        nlIn == {k \in i..wsEnd : k \in newlines}
    IN  IF i \in letters THEN RunEnd(n, i, letters)
        ELSE IF ~IsNewline(c[i]) /\ ~IsNumber(c[i]) /\ (i + 1) \in letters
             THEN RunEnd(n, i + 1, letters)
        ELSE IF c[i] = " " /\ (i + 1) \in symbols
             THEN RunEnd(n, RunEnd(n, i + 1, symbols) + 1, newlines)
        ELSE IF i \in symbols
             THEN RunEnd(n, RunEnd(n, i, symbols) + 1, newlines)
        ELSE IF nlIn # {} THEN SetMax(nlIn)
        ELSE IF wsEnd = n THEN wsEnd
        ELSE IF wsEnd > i THEN wsEnd - 1
        ELSE wsEnd

\* encode_with_special_tokens: the tokens of the pieces, in order
RECURSIVE EncodeFrom(_, _)
EncodeFrom(c, i) ==
    IF i > Len(c) THEN <<>>
    ELSE LET e == PieceEnd(c, i)
         IN  EncodePiece(Bytes(SubSeq(c, i, e))) \o EncodeFrom(c, e + 1)

Encode(text) == EncodeFrom(text, 1)

RECURSIVE DecodeBytes(_)
DecodeBytes(tokens) ==
    IF tokens = <<>> THEN <<>> ELSE TokenBytes(Head(tokens)) \o DecodeBytes(Tail(tokens))

\* the number of bytes of the UTF-8 sequence that starts with byte b, 0 when
\* b starts none
Utf8Width(b) ==
    IF b < 128 THEN 1
    ELSE IF b >= 194 /\ b <= 223 THEN 2
    ELSE IF b >= 224 /\ b <= 239 THEN 3
    ELSE IF b >= 240 /\ b <= 244 THEN 4
    ELSE 0

\* String::from_utf8
RECURSIVE FromUtf8(_)
FromUtf8(bs) ==
    IF bs = <<>> THEN Ok(<<>>)
    ELSE LET w == Utf8Width(bs[1])
         IN  IF w = 0 \/ w > Len(bs) THEN Err
             ELSE IF \E k \in 2..w : bs[k] < 128 \/ bs[k] > 191 THEN Err
             ELSE IF ~\E c \in TokenizerChars : Utf8(c) = SubSeq(bs, 1, w) THEN Err
             ELSE LET rest == FromUtf8(SubSeq(bs, w + 1, Len(bs)))
                      ch == CHOOSE c \in TokenizerChars : Utf8(c) = SubSeq(bs, 1, w)
                  IN  IF rest.ok THEN Ok(<<ch>> \o rest.val) ELSE Err

\* CoreBPE::decode
Decode(tokens) == FromUtf8(DecodeBytes(tokens))

OptimizeLogDataInclusive(text, n) ==
    LET tokens == Encode(text)
    IN  IF Len(tokens) <= n THEN Ok(text)
        ELSE Decode(SubSeq(tokens, 1, n + 1))

\* the budget compared with the length in bytes; a slice past the end of
\* the tokens panics
OptimizeLogDataByteBudget(text, n) ==
    LET tokens == Encode(text)
    IN  IF Len(Bytes(text)) <= n THEN Ok(text)
        ELSE IF n > Len(tokens) THEN Err
        ELSE Decode(SubSeq(tokens, 1, n))

OptimizeLogData(text, n) ==
    LET tokens == Encode(text)
    IN  IF Len(tokens) <= n THEN Ok(text)
        ELSE Decode(SubSeq(tokens, 1, n))

\* optimize_log_data(log_data, max_tokens)
Optimize ==
    /\ pc = "optimize"
    /\ optimized' = OptimizeLogData(log_data, max_tokens)
    /\ pc' = "optimized"
    /\ UNCHANGED <<logVars, log_data, max_tokens, diffVars>>

LogIdle ==
    /\ contents = <<>> /\ yamlVoidIsSeq = FALSE /\ format = "none" /\ lines = <<>>
    /\ units = <<>> /\ outOfOrder = FALSE /\ output = NoOutput

InitTrunc ==
    /\ pc = "optimize"
    /\ log_data \in SeqsUpTo(TokenizerChars, MaxTextLen)
    /\ max_tokens \in 0..MaxBudget
    /\ optimized = Err
    /\ LogIdle /\ DiffIdle

NextTrunc == Optimize

SpecTrunc == InitTrunc /\ [][NextTrunc]_vars

\* C6: a text of at most max_tokens tokens is returned unchanged, and
\* optimizing the result again with the same budget returns it once more.
C6_WithinBudgetUnchanged ==
    pc = "optimized" /\ Len(Encode(log_data)) <= max_tokens =>
        /\ optimized = Ok(log_data)
        /\ OptimizeLogData(optimized.val, max_tokens) = optimized

\* a text of several tokens, exactly as many as the budget, was returned
C6_Witness ==
    /\ pc = "optimized"
    /\ Len(Encode(log_data)) = max_tokens
    /\ max_tokens >= 2
    /\ optimized = Ok(log_data)

C9_TruncateSucceeds ==
    pc = "optimized" /\ Len(Encode(log_data)) > max_tokens =>
        /\ optimized.ok
        /\ Bytes(optimized.val) = DecodeBytes(SubSeq(Encode(log_data), 1, max_tokens))
        /\ Len(Bytes(optimized.val)) < Len(Bytes(log_data))

\* what the code satisfies: C9 whenever the cut does not fall inside a
\* character
C9_WhenDecodable ==
    pc = "optimized" /\ Len(Encode(log_data)) > max_tokens =>
        LET cut == DecodeBytes(SubSeq(Encode(log_data), 1, max_tokens))
        IN  IF FromUtf8(cut).ok
            THEN /\ optimized.ok
                 /\ Bytes(optimized.val) = cut
                 /\ Len(Bytes(optimized.val)) < Len(Bytes(log_data))
            ELSE ~optimized.ok

(***************************************************************************)
(* show_diff: TextDiff::configure().algorithm(Myers).diff_lines, then one  *)
(* printed line per change.  diff_lines cuts both texts into lines that    *)
(* keep their line ending, runs the divide and conquer form of Myers'      *)
(* algorithm on them and compacts the result by sliding runs of inserted   *)
(* or deleted lines over equal neighbours.                                 *)
(***************************************************************************)
\* the lines of a text, each with its line ending
RECURSIVE TokenizeLines(_)
TokenizeLines(s) ==
    IF s = <<>> THEN <<>>
    ELSE LET ends == {i \in 1..Len(s) : s[i] = "\n" \/ s[i] = "\r"}
         IN  IF ends = {} THEN <<s>>
             ELSE LET i == SetMin(ends)
                      e == IF s[i] = "\r" /\ i < Len(s) /\ s[i + 1] = "\n" THEN i + 1 ELSE i
                  IN  <<SubSeq(s, 1, e)>> \o TokenizeLines(SubSeq(s, e + 1, Len(s)))

Min2(a, b) == IF a <= b THEN a ELSE b
Abs(i) == IF i < 0 THEN 0 - i ELSE i

CommonPrefixLen(a, b) ==
    SetMax({l \in 0..Min2(Len(a), Len(b)) : SubSeq(a, 1, l) = SubSeq(b, 1, l)})

CommonSuffixLen(a, b) ==
    SetMax({l \in 0..Min2(Len(a), Len(b)) :
               SubSeq(a, Len(a) - l + 1, Len(a)) = SubSeq(b, Len(b) - l + 1, Len(b))})

\* max_d
MaxD(n, m) == (n + m + 1) \div 2 + 1

\* the V arrays of the forward and of the backward search
NewV(n, m) == [k \in (0 - MaxD(n, m) - 1)..(MaxD(n, m) + 1) |-> 0]

NoSnake == [found |-> FALSE, x |-> 0, y |-> 0]
Snake(x, y) == [found |-> TRUE, x |-> x, y |-> y]

\* find_middle_snake: the searches of cost d from both ends, diagonal k
\* from d down to -d
RECURSIVE SnakeForward(_, _, _, _, _, _)
RECURSIVE SnakeBackward(_, _, _, _, _, _)
RECURSIVE SnakeAt(_, _, _, _, _)

SnakeAt(old, new, d, vf, vb) ==
    IF d >= MaxD(Len(old), Len(new)) THEN NoSnake
    ELSE SnakeForward(old, new, d, d, vf, vb)

SnakeForward(old, new, d, k, vf, vb) ==
    LET n == Len(old)
        m == Len(new)
        delta == n - m
        odd == delta % 2 = 1
    IN  IF k < 0 - d THEN SnakeBackward(old, new, d, d, vf, vb)
        ELSE LET x0 == IF k = 0 - d \/ (k # d /\ vf[k - 1] < vf[k + 1])
                       THEN vf[k + 1] ELSE vf[k - 1] + 1
                 y0 == x0 - k
                 x == IF x0 < n /\ y0 >= 0 /\ y0 < m
                      THEN x0 + CommonPrefixLen(SubSeq(old, x0 + 1, n), SubSeq(new, y0 + 1, m))
                      ELSE x0
                 vf2 == [vf EXCEPT ![k] = x]
             IN  IF odd /\ Abs(k - delta) <= d - 1 /\ vf2[k] + vb[0 - (k - delta)] >= n
                 THEN Snake(x0, y0)
                 ELSE SnakeForward(old, new, d, k - 2, vf2, vb)

SnakeBackward(old, new, d, k, vf, vb) ==
    LET n == Len(old)
        m == Len(new)
        delta == n - m
        odd == delta % 2 = 1
    IN  IF k < 0 - d THEN SnakeAt(old, new, d + 1, vf, vb)
        ELSE LET x0 == IF k = 0 - d \/ (k # d /\ vb[k - 1] < vb[k + 1])
                       THEN vb[k + 1] ELSE vb[k - 1] + 1
                 y0 == x0 - k
                 adv == IF x0 < n /\ y0 >= 0 /\ y0 < m
                        THEN CommonSuffixLen(SubSeq(old, 1, n - x0), SubSeq(new, 1, m - y0))
                        ELSE 0
                 x == x0 + adv
                 y == y0 + adv
                 vb2 == [vb EXCEPT ![k] = x]
             IN  IF ~odd /\ Abs(k - delta) <= d /\ vb2[k] + vf[0 - (k - delta)] >= n
                 THEN Snake(n - x, m - y)
                 ELSE SnakeBackward(old, new, d, k - 2, vf, vb2)

FindMiddleSnake(old, new) ==
    SnakeAt(old, new, 0, NewV(Len(old), Len(new)), NewV(Len(old), Len(new)))

Change(tag, value) == [tag |-> tag, value |-> value]
Tagged(tag, ls) == [i \in 1..Len(ls) |-> Change(tag, ls[i])]

\* conquer, with the suffix forgotten
RECURSIVE ConquerNoSuffix(_, _)
ConquerNoSuffix(old, new) ==
    LET p == CommonPrefixLen(old, new)
        old1 == SubSeq(old, p + 1, Len(old))
        new1 == SubSeq(new, p + 1, Len(new))
        s == CommonSuffixLen(old1, new1)
        o == SubSeq(old1, 1, Len(old1) - s)
        w == SubSeq(new1, 1, Len(new1) - s)
    IN  Tagged("Equal", SubSeq(old, 1, p)) \o Tagged("Delete", o) \o Tagged("Insert", w)

\* conquer: the common prefix, the middle, the common suffix
RECURSIVE Conquer(_, _)
Conquer(old, new) ==
    LET p == CommonPrefixLen(old, new)
        old1 == SubSeq(old, p + 1, Len(old))
        new1 == SubSeq(new, p + 1, Len(new))
        s == CommonSuffixLen(old1, new1)
        o == SubSeq(old1, 1, Len(old1) - s)
        w == SubSeq(new1, 1, Len(new1) - s)
        snake == FindMiddleSnake(o, w)
        middle == IF o = <<>> /\ w = <<>> THEN <<>>
                  ELSE IF w = <<>> THEN Tagged("Delete", o)
                  ELSE IF o = <<>> THEN Tagged("Insert", w)
                  ELSE IF snake.found
                       THEN Conquer(SubSeq(o, 1, snake.x), SubSeq(w, 1, snake.y))
                            \o Conquer(SubSeq(o, snake.x + 1, Len(o)),
                                       SubSeq(w, snake.y + 1, Len(w)))
                  ELSE Tagged("Delete", o) \o Tagged("Insert", w)
    IN  Tagged("Equal", SubSeq(old, 1, p))
        \o middle
        \o Tagged("Equal", SubSeq(old1, Len(old1) - s + 1, Len(old1)))

\* the changes of the Myers diff of the lines of two texts
DiffLines(a, b) == Conquer(TokenizeLines(a), TokenizeLines(b))

\* the compaction slides a run i..j of inserted (or deleted) lines up over
\* the equal line before it, which the last line of the run repeats
SlideUp(cs, i, j) ==
    [k \in 1..Len(cs) |->
        IF k = i - 1 THEN Change(cs[i].tag, cs[i - 1].value)
        ELSE IF k >= i /\ k < j THEN cs[k]
        ELSE IF k = j THEN Change("Equal", cs[j].value)
        ELSE cs[k]]

\* or down over the equal line after it, which the first line of the run
\* repeats
SlideDown(cs, i, j) ==
    [k \in 1..Len(cs) |->
        IF k = i THEN Change("Equal", cs[i].value)
        ELSE IF k = j + 1 THEN Change(cs[i].tag, cs[j + 1].value)
        ELSE cs[k]]

IsRun(cs, i, j) ==
    /\ 1 <= i /\ i <= j /\ j <= Len(cs)
    /\ cs[i].tag \in {"Insert", "Delete"}
    /\ \A k \in i..j : cs[k].tag = cs[i].tag

\* diff_lines: the Myers pass
MyersStep ==
    /\ pc = "diff"
    /\ changes' = DiffLines(original, modified)
    /\ pc' = "compact"
    /\ UNCHANGED <<logVars, truncVars, original, modified>>

\* diff_lines: one slide of the compaction
CompactStep ==
    /\ pc = "compact"
    /\ \E i \in 1..Len(changes), j \in 1..Len(changes) :
          /\ IsRun(changes, i, j)
          /\ \/ /\ i > 1 /\ changes[i - 1].tag = "Equal"
                /\ changes[i - 1].value = changes[j].value
                /\ changes' = SlideUp(changes, i, j)
             \/ /\ j < Len(changes) /\ changes[j + 1].tag = "Equal"
                /\ changes[j + 1].value = changes[i].value
                /\ changes' = SlideDown(changes, i, j)
    /\ UNCHANGED <<pc, logVars, truncVars, original, modified>>

\* the Replace hook: the deleted and inserted lines between two equal
\* lines become one replacement, which iter_all_changes gives as its
\* deleted lines followed by its inserted lines
RECURSIVE ReplaceHook(_)
ReplaceHook(cs) ==
    IF cs = <<>> THEN <<>>
    ELSE IF cs[1].tag = "Equal" THEN <<cs[1]>> \o ReplaceHook(Tail(cs))
    ELSE LET e == RunEnd(Len(cs), 1, {k \in 1..Len(cs) : cs[k].tag # "Equal"})
             hunk == SubSeq(cs, 1, e)
         IN  SelectSeq(hunk, LAMBDA ch : ch.tag = "Delete")
             \o SelectSeq(hunk, LAMBDA ch : ch.tag = "Insert")
             \o ReplaceHook(SubSeq(cs, e + 1, Len(cs)))

\* lines 61-67: the changes of iter_all_changes are printed in order
PrintChanges ==
    /\ pc = "compact"
    /\ changes' = ReplaceHook(changes)
    /\ pc' = "printed"
    /\ UNCHANGED <<logVars, truncVars, original, modified>>

NextDiff == MyersStep \/ CompactStep \/ PrintChanges

OldPool == {<<"a">>, <<"b">>, <<"c">>}
NewPool == {<<"a">>, <<"x">>, <<"c">>}

\* texts of at most n lines of a pool, the last line with or without its
\* line ending
DiffTexts(pool, n) ==
    {JoinNl(ls) : ls \in SeqsUpTo(pool, n)}
    \cup {JoinNl(ls) \o <<"\n">> : ls \in SeqsUpTo(pool, n - 1)}

InitDiff ==
    /\ pc = "diff"
    /\ original \in DiffTexts(OldPool, MaxDiffLines)
    /\ modified \in DiffTexts(NewPool, MaxDiffLines)
    /\ changes = <<>>
    /\ LogIdle /\ TruncIdle

SpecDiff == InitDiff /\ [][NextDiff]_vars

\* the values of the changes with a tag of T, in order
Values(cs, T) ==
    LET kept == SelectSeq(cs, LAMBDA ch : ch.tag \in T)
    IN  [i \in 1..Len(kept) |-> kept[i].value]

TextA == <<"a", "\n", "b", "\n", "c">>
TextB == <<"a", "\n", "x", "\n", "c">>

\* C8: the unchanged and deleted lines, in order, are the lines of the
\* original text and rebuild it exactly; the unchanged and inserted lines
\* are the lines of the modified text and rebuild it exactly; and the diff
\* of "a\nb\nc" and "a\nx\nc" is Unchanged a, Deleted b, Inserted x,
\* Unchanged c.
C8_DiffRoundTrip ==
    pc = "printed" =>
        /\ Values(changes, {"Equal", "Delete"}) = TokenizeLines(original)
        /\ Values(changes, {"Equal", "Insert"}) = TokenizeLines(modified)
        /\ Flatten(Values(changes, {"Equal", "Delete"})) = original
        /\ Flatten(Values(changes, {"Equal", "Insert"})) = modified
        /\ original = TextA /\ modified = TextB =>
             changes = <<Change("Equal", <<"a", "\n">>), Change("Delete", <<"b", "\n">>),
                         Change("Insert", <<"x", "\n">>), Change("Equal", <<"c">>)>>

\* the diff of the two texts of the example was printed
C8_Witness ==
    /\ pc = "printed"
    /\ original = TextA /\ modified = TextB
    /\ Len(changes) = 4

====
